---- MODULE Spec2Model ----
(***************************************************************************)
(* PedroCLI fine-tuning data pipeline.                                     *)
(*                                                                         *)
(*   stage 1  src/finetune/collect_data.py     DataCollector and main()    *)
(*   stage 2  src/finetune/prepare_dataset.py  format, split, save, stats  *)
(*                                                                         *)
(* Encoding of Python values.                                              *)
(*   - A value that may be None is a sequence of length at most one:       *)
(*     None is <<>> and the value v is <<v>>.                              *)
(*   - A quality score is an integer number of tenths (0.9 is 9).          *)
(*   - A dict is a function from its keys (a record); a dict whose keys    *)
(*     are not fixed (metadata) is a set of <<key, value>> pairs.          *)
(*   - A double is a record [hi, mid, lo, exp]: its 53-bit significand in  *)
(*     three limbs and its binary exponent (see stage 2).                  *)
(***************************************************************************)
EXTENDS Integers, Sequences, FiniteSets, TLC

VARIABLES
    \* ---- stage 1: collect_data.main ----
    argsC,       \* parsed command line: [min_quality, twitch_dir]
    collector,   \* the DataCollector: [conn, examples]
    rows,        \* the local rows of the collect method running: what fetchall() returned
    queries,     \* number of cursor.execute calls that reached the store
    storeErrors, \* number of those the store answered with an error
    lastCount,   \* the count in the last "Collected N" / "Filtered N" message printed
    closeCalls,  \* number of conn.close() calls on the store connection
    excC,        \* the exception in flight in main, "none" if none
    outFile,     \* the --output file: None while untouched, else <<lines>>
    exitCode,    \* the process's exit status, None while it runs
    pcC,         \* position in main
    \* ---- stage 2: prepare_dataset.main ----
    argv,        \* command line: [train_ratio: the decimal text num/den, seed]
    inputFile,   \* the --input file: None if there is none, else <<lines>>
    rng,         \* state of the module-level generator of random
    args,        \* parsed arguments: [train_ratio: a double, seed]
    examples,    \* main's examples: the loaded dicts
    formatted,   \* main's formatted
    train,       \* main's train
    val,         \* main's val
    trainFile,   \* train.jsonl: None while absent, else <<lines>>
    valFile,     \* val.jsonl
    writes,      \* number of save_jsonl calls of this invocation
    excP,        \* the exception that ended this invocation, "none" if none
    pcP,         \* position in main
    invocation,  \* "first" or "second" invocation on the same input file
    prev         \* what the first invocation was given and returned, None before it ends

varsC == <<argsC, collector, rows, queries, storeErrors, lastCount, closeCalls, excC,
           outFile, exitCode, pcC>>

varsP == <<argv, inputFile, rng, args, examples, formatted, train, val,
           trainFile, valFile, writes, excP, pcP, invocation, prev>>

vars == <<varsC, varsP>>

None == <<>>
Some(v) == <<v>>

\* Python truthiness of an optional string and of an optional number.
TruthyStr(o) == o # None /\ o[1] # ""
TruthyNum(o) == o # None /\ o[1] # 0

----
\* Bounds of the model.
MaxBlogRows == 4
MaxPairRows == 3

\* TrainingExample.quality_score defaults to 1.0: ten tenths.
DefaultQuality == 10

SeqsUpTo(S, n) == UNION {[1..k -> S] : k \in 0..n}

\* Rows of SELECT raw_transcription, final_content, title, id FROM blog_posts.
BlogRow == [raw_transcription : {None, Some(""), Some("raw")},
            final_content : {None, Some(""), Some("final")},
            title : {Some("t")},
            id : {7}]

\* Rows of SELECT input_text, output_text, source_type, quality_score, metadata
\* FROM training_pairs WHERE output_text IS NOT NULL AND output_text != ''.
PairRow ==
    [input_text : {Some("in")}, output_text : {Some("out")},
     source_type : {Some("writer")},
     quality_score : {None, Some(0), Some(3), Some(5), Some(9)},
     metadata : {None}]
    \cup
    [input_text : {None, Some("in")}, output_text : {Some("out")},
     source_type : {None, Some("writer")},
     quality_score : {Some(5)},
     metadata : {None}]

\* --min-quality values (tenths); 5 is the default.
Thresholds == {0, 5, 9, 11}

\* str(post_id)
Str(n) == IF n = 7 THEN "7" ELSE "?"

TrainingExample(input_text, output_text, source_type, quality_score, metadata) ==
    [input_text |-> input_text, output_text |-> output_text,
     source_type |-> source_type, quality_score |-> quality_score,
     metadata |-> metadata]

----
\* The loop with "is not None" tests in place of the truth tests.
RECURSIVE BlogExamplesNullTestOnly(_)
BlogExamplesNullTestOnly(rs) ==
    IF rs = <<>> THEN <<>>
    ELSE LET r == Head(rs) IN
         (IF r.raw_transcription # None /\ r.final_content # None
          THEN <<TrainingExample(r.raw_transcription, r.final_content,
                                 Some("blog"), DefaultQuality,
                                 {<<"post_id", Str(r.id)>>, <<"title", r.title[1]>>})>>
          ELSE <<>>)
         \o BlogExamplesNullTestOnly(Tail(rs))

\* DataCollector.collect_from_blog_posts: the loop over the fetched rows.
RECURSIVE BlogExamples(_)
BlogExamples(rs) ==
    IF rs = <<>> THEN <<>>
    ELSE LET r == Head(rs) IN
         (IF TruthyStr(r.raw_transcription) /\ TruthyStr(r.final_content)
          THEN <<TrainingExample(r.raw_transcription, r.final_content,
                                 Some("blog"), DefaultQuality,
                                 {<<"post_id", Str(r.id)>>, <<"title", r.title[1]>>})>>
          ELSE <<>>)
         \o BlogExamples(Tail(rs))

\* DataCollector.collect_from_training_pairs: the loop over the fetched rows.
RECURSIVE PairExamples(_)
PairExamples(rs) ==
    IF rs = <<>> THEN <<>>
    ELSE LET r == Head(rs) IN
         <<TrainingExample(r.input_text, r.output_text, r.source_type,
                           IF TruthyNum(r.quality_score)
                           THEN r.quality_score[1] ELSE DefaultQuality,
                           IF r.metadata # None /\ r.metadata[1] # {}
                           THEN r.metadata[1] ELSE {})>>
         \o PairExamples(Tail(rs))

\* The comprehension with > in place of >=.
RECURSIVE RetainedAbove(_, _)
RetainedAbove(exs, min_score) ==
    IF exs = <<>> THEN <<>>
    ELSE (IF Head(exs).quality_score > min_score THEN <<Head(exs)>> ELSE <<>>)
         \o RetainedAbove(Tail(exs), min_score)

\* The comprehension of DataCollector.filter_by_quality.
RECURSIVE Retained(_, _)
Retained(exs, min_score) ==
    IF exs = <<>> THEN <<>>
    ELSE (IF Head(exs).quality_score >= min_score THEN <<Head(exs)>> ELSE <<>>)
         \o Retained(Tail(exs), min_score)

\* json.dumps(example.to_dict()): one line of the stage-1 file.
ToDict(ex) == ex

----
\* An exception raised inside main's try block: control goes to the finally
\* clause with the exception pending.
RaiseC(e) == /\ excC' = e
             /\ pcC' = "finally"

InitC ==
    /\ argsC \in [min_quality : Thresholds, twitch_dir : {None, Some("vods")}]
    /\ collector = [conn |-> "None", examples |-> <<>>]
    /\ rows = <<>>
    /\ queries = 0
    /\ storeErrors = 0
    /\ lastCount = 0
    /\ closeCalls = 0
    /\ excC = "none"
    /\ outFile = None
    /\ exitCode = None
    /\ pcC = "connect"

\* DataCollector.connect: psycopg2.connect succeeds, or fails and sys.exit(1).
Connect ==
    /\ UNCHANGED varsP
    /\ pcC = "connect"
    /\ \E ok \in BOOLEAN :
         IF ok
         THEN /\ collector' = [collector EXCEPT !.conn = "open"]
              /\ pcC' = "blog"
              /\ excC' = excC
         ELSE /\ collector' = collector
              /\ RaiseC("SystemExit")
    /\ UNCHANGED <<argsC, rows, queries, storeErrors, lastCount, closeCalls, outFile, exitCode>>

\* DataCollector.collect_from_blog_posts, up to rows = cursor.fetchall(): the
\* query goes to the store, which answers with rows or with an error.
CollectFromBlogPosts_Fetch ==
    /\ UNCHANGED varsP
    /\ pcC = "blog"
    /\ IF collector.conn # "open"
       THEN \* self.conn.cursor() on None: AttributeError
            /\ RaiseC("AttributeError")
            /\ UNCHANGED <<rows, queries, storeErrors>>
       ELSE \E ok \in BOOLEAN :
              /\ queries' = queries + 1
              /\ IF ok
                 THEN /\ rows' \in SeqsUpTo(BlogRow, MaxBlogRows)
                      /\ pcC' = "blog_rows"
                      /\ UNCHANGED <<excC, storeErrors>>
                 ELSE /\ RaiseC("StoreError")
                      /\ storeErrors' = storeErrors + 1
                      /\ rows' = rows
    /\ UNCHANGED <<argsC, collector, lastCount, closeCalls, outFile, exitCode>>

\* DataCollector.collect_from_blog_posts, from the loop over rows to the return
\* (the local rows dies with the call).
CollectFromBlogPosts_Append ==
    /\ UNCHANGED varsP
    /\ pcC = "blog_rows"
    /\ collector' = [collector EXCEPT !.examples = @ \o BlogExamples(rows)]
    /\ lastCount' = Len(rows)
    /\ rows' = <<>>
    /\ pcC' = "pairs"
    /\ UNCHANGED <<argsC, queries, storeErrors, closeCalls, excC, outFile, exitCode>>

\* The same with the store's error caught and logged: the method goes on with
\* no rows.
CollectFromTrainingPairs_FetchBestEffort ==
    /\ UNCHANGED varsP
    /\ pcC = "pairs"
    /\ IF collector.conn # "open"
       THEN /\ RaiseC("AttributeError")
            /\ UNCHANGED <<rows, queries, storeErrors>>
       ELSE \E ok \in BOOLEAN :
              /\ queries' = queries + 1
              /\ pcC' = "pairs_rows"
              /\ excC' = excC
              /\ IF ok
                 THEN /\ rows' \in SeqsUpTo(PairRow, MaxPairRows)
                      /\ storeErrors' = storeErrors
                 ELSE /\ rows' = <<>>
                      /\ storeErrors' = storeErrors + 1
    /\ UNCHANGED <<argsC, collector, lastCount, closeCalls, outFile, exitCode>>

\* DataCollector.collect_from_training_pairs, up to rows = cursor.fetchall().
CollectFromTrainingPairs_Fetch ==
    /\ UNCHANGED varsP
    /\ pcC = "pairs"
    /\ IF collector.conn # "open"
       THEN /\ RaiseC("AttributeError")
            /\ UNCHANGED <<rows, queries, storeErrors>>
       ELSE \E ok \in BOOLEAN :
              /\ queries' = queries + 1
              /\ IF ok
                 THEN /\ rows' \in SeqsUpTo(PairRow, MaxPairRows)
                      /\ pcC' = "pairs_rows"
                      /\ UNCHANGED <<excC, storeErrors>>
                 ELSE /\ RaiseC("StoreError")
                      /\ storeErrors' = storeErrors + 1
                      /\ rows' = rows
    /\ UNCHANGED <<argsC, collector, lastCount, closeCalls, outFile, exitCode>>

\* The same with the new examples put in front of the collection.
CollectFromTrainingPairs_AppendInFront ==
    /\ UNCHANGED varsP
    /\ pcC = "pairs_rows"
    /\ collector' = [collector EXCEPT !.examples = PairExamples(rows) \o @]
    /\ lastCount' = Len(rows)
    /\ rows' = <<>>
    /\ pcC' = "twitch"
    /\ UNCHANGED <<argsC, queries, storeErrors, closeCalls, excC, outFile, exitCode>>

\* DataCollector.collect_from_training_pairs, from the loop over rows to the
\* return.
CollectFromTrainingPairs_Append ==
    /\ UNCHANGED varsP
    /\ pcC = "pairs_rows"
    /\ collector' = [collector EXCEPT !.examples = @ \o PairExamples(rows)]
    /\ lastCount' = Len(rows)
    /\ rows' = <<>>
    /\ pcC' = "twitch"
    /\ UNCHANGED <<argsC, queries, storeErrors, closeCalls, excC, outFile, exitCode>>

\* if args.twitch_dir: collector.collect_from_twitch(...): a placeholder that
\* only prints.
CollectFromTwitch ==
    /\ UNCHANGED varsP
    /\ pcC = "twitch"
    /\ IF TruthyStr(argsC.twitch_dir)
       THEN collector' = collector   \* collect_from_twitch: two prints
       ELSE collector' = collector   \* not called
    /\ pcC' = "filter"
    /\ UNCHANGED <<argsC, rows, queries, storeErrors, lastCount, closeCalls, excC,
                   outFile, exitCode>>

\* DataCollector.filter_by_quality(args.min_quality).
FilterByQuality ==
    /\ UNCHANGED varsP
    /\ pcC = "filter"
    /\ collector' = [collector EXCEPT
           !.examples = Retained(@, argsC.min_quality)]
    /\ lastCount' = Len(collector.examples) - Len(collector'.examples)
    /\ pcC' = "stats"
    /\ UNCHANGED <<argsC, rows, queries, storeErrors, closeCalls, excC, outFile, exitCode>>

\* DataCollector.print_stats: f"{source:15s}" raises TypeError when a source
\* type is None (and so does sorting None among strings).
PrintStatsRaises(exs) == \E i \in 1..Len(exs) : exs[i].source_type = None

PrintStats ==
    /\ UNCHANGED varsP
    /\ pcC = "stats"
    /\ IF PrintStatsRaises(collector.examples)
       THEN RaiseC("TypeError")
       ELSE /\ pcC' = "save"
            /\ excC' = excC
    /\ UNCHANGED <<argsC, collector, rows, queries, storeErrors, lastCount, closeCalls,
                   outFile, exitCode>>

\* DataCollector.save_to_jsonl: open(output_path, 'w') and one line per example.
\* The open may fail (the file is untouched) and a write may fail after some
\* lines (the file holds the lines written so far).
SaveToJsonl ==
    /\ UNCHANGED varsP
    /\ pcC = "save"
    /\ LET lines == [i \in 1..Len(collector.examples) |-> ToDict(collector.examples[i])] IN
       \/ /\ outFile' = Some(lines)
          /\ pcC' = "finally"
          /\ excC' = excC
       \/ /\ outFile' = outFile
          /\ RaiseC("OSError")
       \/ \E k \in 0..(Len(lines) - 1) :
            /\ outFile' = Some(SubSeq(lines, 1, k))
            /\ RaiseC("OSError")
    /\ UNCHANGED <<argsC, collector, rows, queries, storeErrors, lastCount, closeCalls, exitCode>>

\* collector.close() as the last statement of the try block, not in a finally.
CloseUnlessRaised ==
    /\ UNCHANGED varsP
    /\ pcC = "finally"
    /\ IF collector.conn = "open" /\ excC = "none"
       THEN /\ collector' = [collector EXCEPT !.conn = "closed"]
            /\ closeCalls' = closeCalls + 1
       ELSE UNCHANGED <<collector, closeCalls>>
    /\ exitCode' = Some(IF excC = "none" THEN 0 ELSE 1)
    /\ pcC' = "exit"
    /\ UNCHANGED <<argsC, rows, queries, storeErrors, lastCount, excC, outFile>>

\* finally: collector.close(), then main returns or the pending exception ends
\* the process.
Close ==
    /\ UNCHANGED varsP
    /\ pcC = "finally"
    /\ IF collector.conn = "open"
       THEN /\ collector' = [collector EXCEPT !.conn = "closed"]
            /\ closeCalls' = closeCalls + 1
       ELSE UNCHANGED <<collector, closeCalls>>
    /\ exitCode' = Some(IF excC = "none" THEN 0 ELSE 1)
    /\ pcC' = "exit"
    /\ UNCHANGED <<argsC, rows, queries, storeErrors, lastCount, excC, outFile>>

----
(***************************************************************************)
(* Stage 2: prepare_dataset.py                                             *)
(***************************************************************************)
MaxLines == 3
\* Lengths of two larger input files.
ScenarioLen == 10
BulkLen == 50

\* ---- IEEE 754 doubles (binary64), non-negative, round to nearest even ----
\* A double is [hi, mid, lo, exp]: its 53-bit significand cut into the top 18
\* bits, the next 18 and the last 17, standing for the number
\*   (hi * 2^35 + mid * 2^17 + lo) * 2^(exp - 53),
\* normalised (hi >= 2^17) unless it is zero.
RECURSIVE Pow2(_)
Pow2(n) == IF n = 0 THEN 1 ELSE 2 * Pow2(n - 1)

FloatZero == [hi |-> 0, mid |-> 0, lo |-> 0, exp |-> 0]
FloatOne == [hi |-> Pow2(17), mid |-> 0, lo |-> 0, exp |-> 1]

\* Round to nearest, ties to even: the significand (hi, mid, lo) of a number
\* whose next bit is guard and whose later bits are nonzero iff sticky.
RoundToDouble(hi, mid, lo, exp, guard, sticky) ==
    LET up == guard = 1 /\ (sticky \/ lo % 2 = 1)
        lo1 == IF up THEN lo + 1 ELSE lo
        mid1 == IF lo1 = Pow2(17) THEN mid + 1 ELSE mid
        hi1 == IF mid1 = Pow2(18) THEN hi + 1 ELSE hi
    IN  IF hi1 = Pow2(18)
        THEN [hi |-> Pow2(17), mid |-> 0, lo |-> 0, exp |-> exp + 1]
        ELSE [hi |-> hi1, mid |-> mid1 % Pow2(18), lo |-> lo1 % Pow2(17), exp |-> exp]

\* argparse's type=float on the decimal text of num/den, 0 <= num <= den, den a
\* power of ten below 8192: long division of num by den in binary to 53
\* significant bits and a guard bit, then rounding.
ParseFloat(num, den) ==
    IF num = 0 THEN FloatZero
    ELSE IF num = den THEN FloatOne
    ELSE LET z == CHOOSE i \in 0..12 : num * Pow2(i) < den /\ num * Pow2(i + 1) >= den
             r0 == num * Pow2(z)
             hi == (r0 * Pow2(18)) \div den
             r1 == (r0 * Pow2(18)) % den
             mid == (r1 * Pow2(18)) \div den
             r2 == (r1 * Pow2(18)) % den
             lo == (r2 * Pow2(17)) \div den
             r3 == (r2 * Pow2(17)) % den
         IN  RoundToDouble(hi, mid, lo, 0 - z, (2 * r3) \div den, (2 * r3) % den # 0)

\* n * x for an int 0 <= n < 2^13 and a double x: n converts to a double
\* exactly, and the product of two doubles is their exact product rounded once.
MulIntFloat(n, x) ==
    IF n = 0 \/ x = FloatZero THEN FloatZero
    ELSE LET p3 == n * x.lo
             p2 == n * x.mid + p3 \div Pow2(17)
             p1 == n * x.hi + p2 \div Pow2(18)
             l3 == p3 % Pow2(17)
             l2 == p2 % Pow2(18)
             \* the exact product is p1 * 2^35 + l2 * 2^17 + l3 and has 53 + s bits
             s == (CHOOSE b \in 18..31 : p1 \div Pow2(b - 1) = 1) - 18
             lost == l3 % Pow2(s)
         IN  IF s = 0 THEN [hi |-> p1, mid |-> l2, lo |-> l3, exp |-> x.exp]
             ELSE RoundToDouble(p1 \div Pow2(s),
                                ((p1 % Pow2(s)) * Pow2(18) + l2) \div Pow2(s),
                                ((l2 % Pow2(s)) * Pow2(17) + l3) \div Pow2(s),
                                x.exp + s,
                                lost \div Pow2(s - 1),
                                lost % Pow2(s - 1) # 0)

\* int(x) for a double 0 <= x < 2^18: truncation.
IntOfFloat(x) == IF x.exp <= 0 THEN 0 ELSE x.hi \div Pow2(18 - x.exp)

\* ---- the generator of module random ----
\* The Mersenne Twister is stood for by a small congruential generator: what the
\* model keeps of it is that random.seed(a) sets a state that depends on a alone
\* and that every draw is a function of the state.
\* The generator left as the process found it.
RandomSeedIgnored(a, state) == state

RandomSeed(a, state) == a % 61

NextRand(state) == (state * 17 + 5) % 61

\* random.shuffle(x): for i in reversed(range(1, len(x))): j = randbelow(i + 1);
\* x[i], x[j] = x[j], x[i].  Here i counts as in Python and x is indexed from 1.
RECURSIVE Shuffle(_, _, _)
Shuffle(x, i, state) ==
    IF i < 1 THEN [list |-> x, state |-> state]
    ELSE LET s2 == NextRand(state)
             j == s2 % (i + 1)
         IN  Shuffle([x EXCEPT ![i + 1] = x[j + 1], ![j + 1] = x[i + 1]], i - 1, s2)

\* ---- JSON lines ----
\* A line of a .jsonl file is [text, members]: text is "object" for a line that
\* holds a JSON object, whose members are <<key, value>> pairs, and "garbage" for
\* a line json.loads rejects.  A JSON value is null or a string.
JNull == <<"null">>
JStr(s) == <<"string", s>>
JObject(members) == [text |-> "object", members |-> members]
Garbage == [text |-> "garbage", members |-> {}]

Malformed(line) == line.text # "object"

\* json.loads(line) of a line that is not malformed: a dict, null read as None.
Loads(line) ==
    [k \in {m[1] : m \in line.members} |->
        LET v == (CHOOSE m \in line.members : m[1] = k)[2]
        IN  IF v = JNull THEN None ELSE Some(v[2])]

\* json.dumps(example): None written as null.
Dumps(d) ==
    JObject({<<k, IF d[k] = None THEN JNull ELSE JStr(d[k][1])>> : k \in DOMAIN d})

Stage1Line(input_text, source_members) ==
    JObject({<<"input_text", input_text>>, <<"output_text", JStr("b")>>}
            \cup source_members)

\* The lines an input file is made of.
Lines ==
    {Garbage,
     Stage1Line(JStr("a"), {<<"source_type", JStr("blog")>>}),
     Stage1Line(JStr("a"), {<<"source_type", JNull>>}),
     Stage1Line(JStr("a"), {<<"source_type", JStr("")>>}),
     Stage1Line(JStr("a"), {}),
     Stage1Line(JNull, {<<"source_type", JStr("writer")>>}),
     JObject({<<"output_text", JStr("b")>>, <<"source_type", JStr("blog")>>})}

\* A file of n well-formed records, all different.
BulkFile(n) ==
    [i \in 1..n |-> Stage1Line(JStr(ToString(i)), {<<"source_type", JStr("blog")>>})]

InputFiles ==
    {None} \cup {Some(f) : f \in SeqsUpTo(Lines, MaxLines)}
           \cup {Some(BulkFile(ScenarioLen)), Some(BulkFile(BulkLen))}

\* --train-ratio texts: 0.0, 0.58, 0.9 (the default) and 1.0.
Ratios == {[num |-> 0, den |-> 10], [num |-> 58, den |-> 100],
           [num |-> 9, den |-> 10], [num |-> 10, den |-> 10]}

\* --seed values; 42 is the default.
Seeds == {42, 8}

\* States the generator starts a process in (seeded from the system's entropy).
Entropy == {3, 5}

Instruction == "Transform the following raw dictation into a polished, narrative-driven blog post."

\* format_as_instruction(example), for an example that has both text keys.
FormatAsInstruction(example) ==
    [instruction |-> Some(Instruction),
     input |-> example.input_text,
     output |-> example.output_text,
     source |-> IF "source_type" \in DOMAIN example
                THEN example.source_type ELSE Some("unknown")]

FormatRaises(example) == ~({"input_text", "output_text"} \subseteq DOMAIN example)

\* split_dataset(examples, train_ratio), the generator being in state: the list
\* is shuffled in place and cut at int(len(examples) * train_ratio).
SplitDataset(exs, train_ratio, state) ==
    LET sh == Shuffle(exs, Len(exs) - 1, state)
        split_idx == IntOfFloat(MulIntFloat(Len(exs), train_ratio))
    IN  [shuffled |-> sh.list,
         state |-> sh.state,
         train |-> SubSeq(sh.list, 1, split_idx),
         val |-> SubSeq(sh.list, split_idx + 1, Len(exs))]

\* calc_stats(examples, name): len() of a None input or output is a TypeError,
\* and the averages divide by len(examples).
CalcStatsError(exs) ==
    IF \E i \in 1..Len(exs) : exs[i].input = None \/ exs[i].output = None
    THEN "TypeError"
    ELSE IF Len(exs) = 0 THEN "ZeroDivisionError"
    ELSE "none"

\* An uncaught exception ends main.
RaiseP(e) == /\ excP' = e
             /\ pcP' = "failed"

IdleP ==
    /\ argv = [train_ratio |-> [num |-> 9, den |-> 10], seed |-> 42]
    /\ inputFile = None
    /\ rng = 0
    /\ args = None
    /\ examples = <<>>
    /\ formatted = <<>>
    /\ train = <<>>
    /\ val = <<>>
    /\ trainFile = None
    /\ valFile = None
    /\ writes = 0
    /\ excP = "none"
    /\ pcP = "idle"
    /\ invocation = "first"
    /\ prev = None

IdleC ==
    /\ argsC = [min_quality |-> 5, twitch_dir |-> None]
    /\ collector = [conn |-> "None", examples |-> <<>>]
    /\ rows = <<>>
    /\ queries = 0
    /\ storeErrors = 0
    /\ lastCount = 0
    /\ closeCalls = 0
    /\ excC = "none"
    /\ outFile = None
    /\ exitCode = None
    /\ pcC = "idle"

InitP ==
    /\ argv \in [train_ratio : Ratios, seed : Seeds]
    /\ inputFile \in InputFiles
    /\ rng \in Entropy
    /\ args = None
    /\ examples = <<>>
    /\ formatted = <<>>
    /\ train = <<>>
    /\ val = <<>>
    /\ trainFile = None
    /\ valFile = None
    /\ writes = 0
    /\ excP = "none"
    /\ pcP = "start"
    /\ invocation = "first"
    /\ prev = None

\* main, lines 86-90: parse the arguments, random.seed(args.seed), make the
\* output directory.
ParseArgsAndSeed ==
    /\ UNCHANGED varsC
    /\ pcP = "start"
    /\ args' = Some([train_ratio |-> ParseFloat(argv.train_ratio.num, argv.train_ratio.den),
                     seed |-> argv.seed])
    /\ rng' = RandomSeed(argv.seed, rng)
    /\ pcP' = "load"
    /\ UNCHANGED <<argv, inputFile, examples, formatted, train, val,
                   trainFile, valFile, writes, excP, invocation, prev>>

\* The loop with the lines json.loads rejects skipped.
ParsedLinesSkipping(lines) ==
    LET RECURSIVE Good(_)
        Good(ls) == IF ls = <<>> THEN <<>>
                    ELSE (IF Malformed(Head(ls)) THEN <<>> ELSE <<Loads(Head(ls))>>)
                         \o Good(Tail(ls))
    IN  Some(Good(lines))

\* The loop of main, lines 94-96, on a file that exists: the dicts of its lines,
\* or None when json.loads raises on one of them.
ParsedLines(lines) ==
    IF \E i \in 1..Len(lines) : Malformed(lines[i])
    THEN None
    ELSE Some([i \in 1..Len(lines) |-> Loads(lines[i])])

LoadExamples ==
    /\ UNCHANGED varsC
    /\ pcP = "load"
    /\ IF inputFile = None
       THEN /\ RaiseP("FileNotFoundError")
            /\ examples' = examples
       ELSE IF ParsedLines(inputFile[1]) = None
       THEN /\ RaiseP("JSONDecodeError")
            /\ examples' = examples
       ELSE /\ examples' = ParsedLines(inputFile[1])[1]
            /\ pcP' = "format"
            /\ excP' = excP
    /\ UNCHANGED <<argv, inputFile, rng, args, formatted, train, val,
                   trainFile, valFile, writes, invocation, prev>>

\* main, line 102: formatted = [format_as_instruction(ex) for ex in examples].
FormatExamples ==
    /\ UNCHANGED varsC
    /\ pcP = "format"
    /\ IF \E i \in 1..Len(examples) : FormatRaises(examples[i])
       THEN /\ RaiseP("KeyError")
            /\ formatted' = formatted
       ELSE /\ formatted' = [i \in 1..Len(examples) |-> FormatAsInstruction(examples[i])]
            /\ pcP' = "split"
            /\ excP' = excP
    /\ UNCHANGED <<argv, inputFile, rng, args, examples, train, val,
                   trainFile, valFile, writes, invocation, prev>>

\* main, line 111: train, val = split_dataset(formatted, args.train_ratio).
Split ==
    /\ UNCHANGED varsC
    /\ pcP = "split"
    /\ LET r == SplitDataset(formatted, args[1].train_ratio, rng) IN
         /\ formatted' = r.shuffled
         /\ rng' = r.state
         /\ train' = r.train
         /\ val' = r.val
    /\ pcP' = "save"
    /\ UNCHANGED <<argv, inputFile, args, examples,
                   trainFile, valFile, writes, excP, invocation, prev>>

\* main, lines 117-121: save_jsonl(train, train_path); save_jsonl(val, val_path).
SaveDatasets ==
    /\ UNCHANGED varsC
    /\ pcP = "save"
    /\ trainFile' = Some([i \in 1..Len(train) |-> Dumps(train[i])])
    /\ valFile' = Some([i \in 1..Len(val) |-> Dumps(val[i])])
    /\ writes' = writes + 2
    /\ pcP' = "stats"
    /\ UNCHANGED <<argv, inputFile, rng, args, examples, formatted, train, val,
                   excP, invocation, prev>>

\* main, lines 126-147: calc_stats(train), calc_stats(val), the closing prints.
PrintStatistics ==
    /\ UNCHANGED varsC
    /\ pcP = "stats"
    /\ IF CalcStatsError(train) # "none" THEN RaiseP(CalcStatsError(train))
       ELSE IF CalcStatsError(val) # "none" THEN RaiseP(CalcStatsError(val))
       ELSE /\ pcP' = "done"
            /\ excP' = excP
    /\ UNCHANGED <<argv, inputFile, rng, args, examples, formatted, train, val,
                   trainFile, valFile, writes, invocation, prev>>

\* The tool is run a second time on the same input file with the same train
\* ratio: a new process, whose generator starts in any state, with any seed.
\* The files the first run wrote are still there.
RunAgain ==
    /\ UNCHANGED varsC
    /\ pcP \in {"done", "failed"}
    /\ invocation = "first"
    /\ invocation' = "second"
    /\ prev' = Some([argv |-> argv, split |-> writes > 0, train |-> train, val |-> val])
    /\ \E sd \in Seeds : argv' = [argv EXCEPT !.seed = sd]
    /\ rng' \in Entropy
    /\ args' = None
    /\ examples' = <<>>
    /\ formatted' = <<>>
    /\ train' = <<>>
    /\ val' = <<>>
    /\ writes' = 0
    /\ excP' = "none"
    /\ pcP' = "start"
    /\ UNCHANGED <<inputFile, trainFile, valFile>>

NextP ==
    \/ ParseArgsAndSeed
    \/ LoadExamples
    \/ FormatExamples
    \/ Split
    \/ SaveDatasets
    \/ PrintStatistics
    \/ RunAgain

InitPrepare == InitP /\ IdleC

SpecPrepare == InitPrepare /\ [][NextP]_vars

NextC ==
    \/ Connect
    \/ CollectFromBlogPosts_Fetch
    \/ CollectFromBlogPosts_Append
    \/ CollectFromTrainingPairs_Fetch
    \/ CollectFromTrainingPairs_Append
    \/ CollectFromTwitch
    \/ FilterByQuality
    \/ PrintStats
    \/ SaveToJsonl
    \/ Close

InitCollect == InitC /\ IdleP

SpecCollect == InitCollect /\ [][NextC]_vars

----
(***************************************************************************)
(* Properties of stage 1, checked under SpecCollect.                       *)
(***************************************************************************)
\* The k-th smallest element of a set of integers.
Nth(S, k) == CHOOSE i \in S : Cardinality({j \in S : j <= i}) = k

Scores(exs) == [i \in 1..Len(exs) |-> exs[i].quality_score]

\* A text field that is present: neither null nor the empty string.
Present(o) == o # None /\ o # Some("")

\* C1: every TrainingExample in the accumulated collection has a non-null
\* input_text and a non-null output_text, whatever rows the store returned.
C1_ExamplesHaveBothTexts ==
    \A i \in 1..Len(collector.examples) :
        /\ collector.examples[i].input_text # None
        /\ collector.examples[i].output_text # None

\* C2: filter_by_quality(tau) leaves exactly the examples whose score is at least
\* tau, in their order (the k-th survivor is the k-th example that qualifies),
\* and returns normally, also when nothing survives.
C2_FilterKeepsExactlyTheQualifying ==
    [][pcC = "filter" =>
        LET before == collector.examples
            after == collector'.examples
            keep == {i \in 1..Len(before) : before[i].quality_score >= argsC.min_quality}
        IN  /\ Len(after) = Cardinality(keep)
            /\ \A k \in 1..Len(after) : after[k] = before[Nth(keep, k)]
            /\ pcC' = "stats"
            /\ excC' = "none"]_vars

\* Scores with two below 0.9 went in, and the filter at 0.9 left those scored
\* 1.0 and 0.9.
C2_Witness ==
    /\ pcC = "stats"
    /\ argsC.min_quality = 9
    /\ lastCount = 2
    /\ Scores(collector.examples) = <<10, 9>>

\* C7: the connection, once acquired, is closed exactly once by the time the
\* stage ends, on every exit path; when connecting failed nothing is closed, and
\* no collect method runs and no query is issued without a connection.
C7_ConnectionClosedExactlyOnce ==
    /\ closeCalls <= 1
    /\ (pcC = "exit" /\ collector.conn # "None") =>
           (closeCalls = 1 /\ collector.conn = "closed")
    /\ (pcC = "exit" /\ collector.conn = "None") => closeCalls = 0
    /\ collector.conn = "None" =>
           (queries = 0 /\ pcC \in {"connect", "finally", "exit"})
    /\ collector.conn = "closed" => pcC = "exit"

\* A query failed after the connection was acquired, and the stage ended with
\* the connection closed once.
C7_Witness ==
    /\ pcC = "exit"
    /\ excC = "StoreError"
    /\ closeCalls = 1
    /\ collector.conn = "closed"

\* C8: a failed connection ends the stage at once with exit status 1 and no
\* query; and when the connection or a query of a required source failed,
\* save_to_jsonl is never reached and the output file is untouched.
C8_NoOutputAfterStoreFailure ==
    /\ (collector.conn = "None" /\ pcC # "connect") =>
           /\ excC = "SystemExit"
           /\ pcC \in {"finally", "exit"}
           /\ queries = 0
           /\ outFile = None
    /\ (pcC = "exit" /\ excC = "SystemExit") => exitCode = Some(1)
    /\ storeErrors > 0 =>
           /\ pcC \in {"finally", "exit"}
           /\ outFile = None
           /\ (pcC = "exit" => exitCode = Some(1))

\* The first source was collected, the second one failed, and the stage ended
\* without an output file.
C8_Witness ==
    /\ pcC = "exit"
    /\ storeErrors = 1
    /\ Len(collector.examples) > 0
    /\ outFile = None
    /\ exitCode = Some(1)

\* C9: collect_from_blog_posts appends, for the rows whose raw and final text are
\* both present, one example each, in row order, with input_text the raw text,
\* output_text the final text, source_type "blog" and quality 1.0; it appends
\* nothing for the other rows and leaves the earlier examples alone.
C9_OneBlogExamplePerCompleteRow ==
    [][pcC = "blog_rows" =>
        LET before == collector.examples
            after == collector'.examples
            complete == {i \in 1..Len(rows) :
                            /\ Present(rows[i].raw_transcription)
                            /\ Present(rows[i].final_content)}
        IN  /\ Len(after) = Len(before) + Cardinality(complete)
            /\ SubSeq(after, 1, Len(before)) = before
            /\ \A k \in 1..Cardinality(complete) :
                 LET ex == after[Len(before) + k]
                     r == rows[Nth(complete, k)]
                 IN  /\ ex.input_text = r.raw_transcription
                     /\ ex.output_text = r.final_content
                     /\ ex.source_type = Some("blog")
                     /\ ex.quality_score = DefaultQuality]_vars

\* Four rows came back, one of them incomplete: three examples, all "blog".
C9_Witness ==
    /\ pcC = "pairs"
    /\ lastCount = 4
    /\ Len(collector.examples) = 3
    /\ \A i \in 1..3 : collector.examples[i].source_type = Some("blog")

C12_SuppliedScoreKept ==
    [][pcC = "pairs_rows" =>
        LET before == collector.examples
            after == collector'.examples
        IN  /\ Len(after) = Len(before) + Len(rows)
            /\ \A i \in 1..Len(rows) :
                 after[Len(before) + i].quality_score =
                     IF rows[i].quality_score = None
                     THEN DefaultQuality
                     ELSE rows[i].quality_score[1]]_vars

(***************************************************************************)
(* Properties of stage 2, checked under SpecPrepare.                       *)
(***************************************************************************)
SameMultiset(a, b) ==
    /\ Len(a) = Len(b)
    /\ \A x \in {a[i] : i \in 1..Len(a)} \cup {b[i] : i \in 1..Len(b)} :
         Cardinality({i \in 1..Len(a) : a[i] = x}) = Cardinality({i \in 1..Len(b) : b[i] = x})

\* The split of this invocation has been made.
AfterSplit == pcP \in {"save", "stats", "done"} \/ (pcP = "failed" /\ writes > 0)

\* C3: split_dataset returns |train| = floor(rho * N) and |validation| =
\* N - |train|, and train followed by validation is a permutation of the input.
C3_SplitSizesAndPartition ==
    [][pcP = "split" =>
        LET n == Len(formatted)
            rho == argv.train_ratio
        IN  /\ Len(train') = (rho.num * n) \div rho.den
            /\ Len(val') = n - Len(train')
            /\ SameMultiset(train' \o val', formatted)]_vars

\* C4: two invocations on the same input file with the same train ratio and the
\* same seed return the same train and the same validation sequence, whatever
\* state the generator was in when each process started.
C4_SameSeedSameSplit ==
    (invocation = "second" /\ AfterSplit /\ prev[1].split /\ prev[1].argv = argv) =>
        (train = prev[1].train /\ val = prev[1].val)

\* A second run with the seed of the first ended normally with both splits
\* non-empty, the examples not in file order, and the first run's result.
C4_Witness ==
    /\ invocation = "second"
    /\ pcP = "done"
    /\ prev[1].argv = argv
    /\ prev[1].split
    /\ Len(train) >= 1 /\ Len(val) >= 1
    /\ formatted # [i \in 1..Len(examples) |-> FormatAsInstruction(examples[i])]
    /\ train = prev[1].train /\ val = prev[1].val

\* The input file exists and every line of it is a record with both texts.
UsableInput ==
    /\ inputFile # None
    /\ \A i \in 1..Len(inputFile[1]) :
         /\ ~Malformed(inputFile[1][i])
         /\ {"input_text", "output_text"} \subseteq DOMAIN Loads(inputFile[1][i])
         /\ Loads(inputFile[1][i]).input_text # None
         /\ Loads(inputFile[1][i]).output_text # None

\* C5: on a usable input with N = 0 examples, or with a train ratio of 1.0 or
\* 0.0, the stage raises no error: the splits are empty as the case says, both
\* files are written and the stage reaches its normal end.
C5_EdgeCasesReachNormalEnd ==
    LET rho == argv.train_ratio IN
    (UsableInput /\ (Len(inputFile[1]) = 0 \/ rho.num = rho.den \/ rho.num = 0)) =>
        /\ pcP # "failed"
        /\ AfterSplit =>
             /\ Len(inputFile[1]) = 0 => (train = <<>> /\ val = <<>>)
             /\ rho.num = rho.den => val = <<>>
             /\ rho.num = 0 => train = <<>>
        /\ pcP \in {"stats", "done"} => (trainFile # None /\ valFile # None)

\* C6: the formatted record's source is "unknown" exactly when the record's
\* source_type is missing, null or empty, and is the source_type otherwise.
C6_SourceDefaultsToUnknown ==
    pcP = "split" =>
        \A i \in 1..Len(examples) :
            LET ex == examples[i]
                absent == IF "source_type" \in DOMAIN ex
                          THEN ex.source_type \in {None, Some("")}
                          ELSE TRUE
            IN  /\ formatted[i].source = Some("unknown") <=> absent
                /\ ~absent => formatted[i].source = ex.source_type

\* C10: when a line of the input file is malformed the read aborts: the stage
\* fails in json.loads, nothing is loaded, formatted or split, and neither
\* train.jsonl nor val.jsonl is written.
C10_MalformedLineAbortsTheRead ==
    (inputFile # None /\ \E i \in 1..Len(inputFile[1]) : Malformed(inputFile[1][i])) =>
        /\ pcP \in {"start", "load", "failed"}
        /\ pcP = "failed" => excP = "JSONDecodeError"
        /\ examples = <<>> /\ formatted = <<>> /\ train = <<>> /\ val = <<>>
        /\ writes = 0
        /\ trainFile = None /\ valFile = None

\* The file's first line parses, a later one does not, and the stage has failed.
C10_Witness ==
    /\ pcP = "failed"
    /\ excP = "JSONDecodeError"
    /\ Len(inputFile[1]) >= 2
    /\ ~Malformed(inputFile[1][1])

====
